---------------------------- MODULE Spec2Model ----------------------------
(***************************************************************************)
(* Model of weather_markdown.py: one run of main(), from the command line  *)
(* to the process exit.                                                    *)
(*                                                                         *)
(* Text.  A Python string is a sequence of atoms (TLA+ strings); an atom   *)
(* is a chunk of text that no operation of the program looks into.  A      *)
(* template is a sequence of tokens: a literal chunk or a {placeholder}.   *)
(* An XML text value is one atom; PyNone is the value of `.text` of an     *)
(* element that is present and empty, Absent is an element that find()     *)
(* does not find.  Non-ASCII literals of the source are written by their   *)
(* code points.                                                            *)
(***************************************************************************)
EXTENDS Integers, Sequences, FiniteSets, TLC

\* Largest number of WeatherForecast elements in a document of the feed.
MaxForecasts == 2

(***************************************************************************)
(* Language and the static tables                                          *)
(***************************************************************************)
CHINESE == "zh"
PORTUGUESE == "pt"
ENGLISH == "en"
Language == {CHINESE, PORTUGUESE, ENGLISH}

\* A URL is the sequence of its parts; `s in url` is membership of a part.
DATA_SOURCES(language) ==
    IF language = CHINESE THEN <<"https://xml.smg.gov.mo/", "c_forecast.xml">>
    ELSE IF language = PORTUGUESE THEN <<"https://xml.smg.gov.mo/", "p_forecast.xml">>
    ELSE <<"https://xml.smg.gov.mo/", "e_forecast.xml">>

LANGUAGE_NAMES(language) ==
    IF language = CHINESE THEN "Chinese"
    ELSE IF language = PORTUGUESE THEN "Portuguese"
    ELSE "English"

DEFAULT_TEMPLATES(language) ==
    IF language = CHINESE THEN "default_template.md"
    ELSE IF language = PORTUGUESE THEN "default_pt.md"
    ELSE "default_en.md"

(***************************************************************************)
(* Text, tokens and str.format                                             *)
(***************************************************************************)
PyNone == "<None>"
Absent == "<absent>"

Lit(s) == [k |-> "lit", v |-> s]
Ph(name) == [k |-> "ph", v |-> name]
NL == Lit("\n")
MARKER == Lit("<!-- FORECAST_ITEM -->")

\* str(v), as str.format applies it to a keyword argument.
Str(v) == IF v = PyNone THEN <<"None">> ELSE <<v>>

Contains(url, part) == \E i \in DOMAIN url : url[i] = part

IsSpace(tok) == tok = NL

RECURSIVE LStrip(_)
LStrip(s) == IF s # <<>> /\ IsSpace(Head(s)) THEN LStrip(Tail(s)) ELSE s

RECURSIVE RStrip(_)
RStrip(s) ==
    IF s # <<>> /\ IsSpace(s[Len(s)]) THEN RStrip(SubSeq(s, 1, Len(s) - 1)) ELSE s

Strip(s) == RStrip(LStrip(s))

\* content.split(sep): the parts between the occurrences of sep.
RECURSIVE Split(_, _)
Split(content, sep) ==
    IF \A i \in DOMAIN content : content[i] # sep THEN <<content>>
    ELSE LET i == CHOOSE j \in DOMAIN content :
                      content[j] = sep /\ \A h \in 1..(j - 1) : content[h] # sep
         IN  <<SubSeq(content, 1, i - 1)>>
                 \o Split(SubSeq(content, i + 1, Len(content)), sep)

\* tpl.format(**kw) on a template whose placeholders are all keys of kw.
RECURSIVE FormatText(_, _)
FormatText(tpl, kw) ==
    IF tpl = <<>> THEN <<>>
    ELSE (IF Head(tpl).k = "ph" THEN kw[Head(tpl).v] ELSE <<Head(tpl).v>>)
             \o FormatText(Tail(tpl), kw)

\* A mutant of Format: a placeholder that is no keyword renders as nothing.
RECURSIVE LenientText(_, _)
LenientText(tpl, kw) ==
    IF tpl = <<>> THEN <<>>
    ELSE (IF Head(tpl).k = "ph"
          THEN (IF Head(tpl).v \in DOMAIN kw THEN kw[Head(tpl).v] ELSE <<>>)
          ELSE <<Head(tpl).v>>)
             \o LenientText(Tail(tpl), kw)

FormatLenient(tpl, kw) == [ok |-> TRUE, text |-> LenientText(tpl, kw)]

\* tpl.format(**kw): KeyError (ok = FALSE) on a placeholder that is no keyword.
Format(tpl, kw) ==
    IF \A i \in DOMAIN tpl : tpl[i].k = "ph" => tpl[i].v \in DOMAIN kw
    THEN [ok |-> TRUE, text |-> FormatText(tpl, kw)]
    ELSE [ok |-> FALSE, text |-> <<>>]

(***************************************************************************)
(* Templates                                                               *)
(***************************************************************************)
NoTemplate == [main |-> <<>>, forecast_item |-> <<>>]

\* The built-in templates differ between the languages in their literals only.
create_default_template(language) ==
    LET T(title, today, info, author, pub, lang, fc, upd, tide) ==
            [main |-> <<NL, Lit(title), Lit(today), Ph("today_situation"),
                        Lit(info), Lit(author), Ph("author"),
                        Lit(pub), Ph("pubdate"), Lit(lang), Ph("language"),
                        Lit(fc), Ph("forecasts"), Lit(upd), Ph("current_time"),
                        Lit("*"), NL>>,
             forecast_item |-> <<NL, Lit("### "), Ph("date"), Lit(tide), Ph("tide"),
                                 NL, Ph("description"), Lit("---"), NL>>]
    IN  IF language = CHINESE
        THEN T("# U+6FB3 U+9580 U+5929 U+6C23 U+9810 U+5831 Weather Forecast Macau",
               "## U+4ECA U+65E5 U+5929 U+6C23 U+60C5 U+6CC1 Today's Situation",
               "## U+7CFB U+7D71 U+8CC7 U+8A0A System Information",
               "- **U+767C U+5E03 U+6A5F U+69CB**: ",
               "- **U+767C U+5E03 U+6642 U+9593**: ",
               "- **U+8A9E U+8A00**: ",
               "## U+5929 U+6C23 U+9810 U+5831 Weather Forecast",
               "*U+6700 U+5F8C U+66F4 U+65B0 Last Updated: ",
               "**U+6F6E U+6C50 Astronomical Tide**: ")
        ELSE IF language = PORTUGUESE
        THEN T("# Previsao Meteorologica de Macau",
               "## Situacao Meteorologica de Hoje",
               "## Informacao do Sistema",
               "- **Entidade**: ",
               "- **Data de Publicacao**: ",
               "- **Idioma**: ",
               "## Previsao Meteorologica",
               "*Ultima atualizacao: ",
               "**Mare Astronomica**: ")
        ELSE T("# Macau Weather Forecast",
               "## Today's Weather Situation",
               "## System Information",
               "- **Issuing Authority**: ",
               "- **Publication Time**: ",
               "- **Language**: ",
               "## Weather Forecast",
               "*Last Updated: ",
               "**Astronomical Tide**: ")

\* What open(template_path).read() finds: the file, or the error of the read.
NoFile == [status |-> "unread", content |-> <<>>]

UserMain ==
    <<Lit("# Weather"), Ph("today_situation"), Ph("author"), Ph("pubdate"),
      Ph("language"), Ph("forecasts"), Ph("current_time")>>

UserItem == <<Lit("## "), Ph("date"), Ph("tide"), Ph("description")>>

TemplateFiles ==
    { [status |-> "notfound", content |-> <<>>],
      [status |-> "denied", content |-> <<>>],
      \* no marker
      [status |-> "ok", content |-> UserMain \o <<NL>> \o UserItem],
      \* the marker twice
      [status |-> "ok", content |-> UserMain \o <<MARKER>> \o UserItem \o <<MARKER>>],
      \* a template of the supported placeholders
      [status |-> "ok", content |-> <<NL>> \o UserMain \o <<NL, MARKER, NL>> \o UserItem \o <<NL>>],
      \* an outer template without {forecasts}
      [status |-> "ok", content |-> <<Lit("# Weather"), Ph("author"), NL, MARKER>> \o UserItem],
      \* an unsupported placeholder in the outer template
      [status |-> "ok", content |-> UserMain \o <<Ph("temperature"), MARKER>> \o UserItem],
      \* an unsupported placeholder in the per-day fragment
      [status |-> "ok", content |-> UserMain \o <<MARKER>> \o UserItem \o <<Ph("humidity")>>] }

\* A mutant of load_template: a file without the marker is taken whole as the
\* outer template, with an empty per-day fragment.
load_template_nomarker(file) ==
    IF file.status = "notfound" THEN [raised |-> "FileNotFoundError", template |-> NoTemplate]
    ELSE IF file.status = "denied" THEN [raised |-> "PermissionError", template |-> NoTemplate]
    ELSE LET parts == Split(file.content, MARKER)
         IN  IF Len(parts) = 1
             THEN [raised |-> "", template |-> [main |-> Strip(parts[1]), forecast_item |-> <<>>]]
             ELSE IF Len(parts) # 2
             THEN [raised |-> "ValueError", template |-> NoTemplate]
             ELSE [raised |-> "",
                   template |-> [main |-> Strip(parts[1]), forecast_item |-> Strip(parts[2])]]

\* load_template: the template of the file, or the exception it raises.
load_template(file) ==
    IF file.status = "notfound" THEN [raised |-> "FileNotFoundError", template |-> NoTemplate]
    ELSE IF file.status = "denied" THEN [raised |-> "PermissionError", template |-> NoTemplate]
    ELSE IF ~Contains(file.content, MARKER)
    THEN [raised |-> "ValueError", template |-> NoTemplate]
    ELSE LET parts == Split(file.content, MARKER)
         IN  IF Len(parts) # 2
             THEN [raised |-> "ValueError", template |-> NoTemplate]
             ELSE [raised |-> "",
                   template |-> [main |-> Strip(parts[1]), forecast_item |-> Strip(parts[2])]]

(***************************************************************************)
(* The feed: XML documents and parse_weather_xml                           *)
(***************************************************************************)
Entry(date, desc, tide) ==
    [ValidFor |-> date, WeatherDescription |-> desc, AstronomicalTide |-> tide]

\* The WeatherForecast elements the documents are built from: complete, with
\* the tide sentinel, with elements missing, and with an empty tide element.
Entries ==
    { Entry("2025-01-01", "Sunny", "1.2m"),
      Entry("2025-01-02", Absent, "NIL"),
      Entry(Absent, "Rain", Absent),
      Entry("2025-01-03", "Cloudy", PyNone) }

SeqsUpTo(S, n) == UNION { [1..m -> S] : m \in 0..n }

Doc(wf, author, pubdate, lang, today, fs) ==
    [wellformed |-> wf, SysAuthor |-> author, SysPubdate |-> pubdate,
     SysLanguage |-> lang, TodaySituation |-> today, forecasts |-> fs]

Malformed == Doc(FALSE, Absent, Absent, Absent, Absent, <<>>)

\* Well-formed documents: at most one system element missing.
SysElements ==
    { <<"SMG", "2025-01-01T08:00", "C">>,
      <<Absent, "2025-01-01T08:00", "C">>,
      <<"SMG", Absent, "C">>,
      <<"SMG", "2025-01-01T08:00", Absent>> }

WellFormedDocs ==
    { Doc(TRUE, s[1], s[2], s[3], today, fs) :
        s \in SysElements, today \in {Absent, "Fine today"},
        fs \in SeqsUpTo(Entries, MaxForecasts) }

NoData ==
    [system |-> [author |-> "", pubdate |-> "", language |-> ""],
     today_situation |-> "", forecasts |-> <<>>]

\* A mutant of ForecastRecord: a missing AstronomicalTide yields None.
ForecastRecordNoTide(forecast) ==
    [date |-> IF forecast.ValidFor # Absent THEN forecast.ValidFor ELSE "Unknown",
     description |-> IF forecast.WeatherDescription # Absent
                     THEN forecast.WeatherDescription ELSE "No description",
     tide |-> IF forecast.AstronomicalTide # Absent
              THEN forecast.AstronomicalTide ELSE PyNone]

\* The record parse_weather_xml appends for one WeatherForecast element.
ForecastRecord(forecast) ==
    [date |-> IF forecast.ValidFor # Absent THEN forecast.ValidFor ELSE "Unknown",
     description |-> IF forecast.WeatherDescription # Absent
                     THEN forecast.WeatherDescription ELSE "No description",
     tide |-> IF forecast.AstronomicalTide # Absent
              THEN forecast.AstronomicalTide ELSE "NIL"]

\* A mutant of parse_weather_xml: a missing system element yields "Unknown".
parse_weather_xml_lenient(xml_content) ==
    IF ~xml_content.wellformed THEN [raised |-> "ParseError", data |-> NoData]
    ELSE LET F(e) == IF e # Absent THEN e ELSE "Unknown"
         IN  [raised |-> "",
              data |-> [system |-> [author |-> F(xml_content.SysAuthor),
                                    pubdate |-> F(xml_content.SysPubdate),
                                    language |-> F(xml_content.SysLanguage)],
                        today_situation |-> IF xml_content.TodaySituation # Absent
                                            THEN xml_content.TodaySituation
                                            ELSE "No data available",
                        forecasts |-> [i \in DOMAIN xml_content.forecasts |->
                                          ForecastRecord(xml_content.forecasts[i])]]]

\* parse_weather_xml: the extracted data, or the exception it raises.
parse_weather_xml(xml_content) ==
    IF ~xml_content.wellformed THEN [raised |-> "ParseError", data |-> NoData]
    ELSE IF Absent \in {xml_content.SysAuthor, xml_content.SysPubdate,
                        xml_content.SysLanguage}
    THEN [raised |-> "AttributeError", data |-> NoData]
    ELSE [raised |-> "",
          data |-> [system |-> [author |-> xml_content.SysAuthor,
                                pubdate |-> xml_content.SysPubdate,
                                language |-> xml_content.SysLanguage],
                    today_situation |-> IF xml_content.TodaySituation # Absent
                                        THEN xml_content.TodaySituation
                                        ELSE "No data available",
                    forecasts |-> [i \in DOMAIN xml_content.forecasts |->
                                      ForecastRecord(xml_content.forecasts[i])]]]

(***************************************************************************)
(* generate_markdown                                                       *)
(***************************************************************************)
TideNoData(language) ==
    IF language = CHINESE THEN "U+7121 U+8CC7 U+6599"
    ELSE IF language = PORTUGUESE THEN "Sem dados"
    ELSE "No data"

\* tide_display of one forecast.
TideDisplay(tide, language) == IF tide = "NIL" THEN TideNoData(language) ELSE tide

\* template["forecast_item"].format(date=..., tide=..., description=...)
FormatItem(forecast, item, language) ==
    Format(item, [date |-> Str(forecast.date),
                  tide |-> Str(TideDisplay(forecast.tide, language)),
                  description |-> Str(forecast.description)])

\* A mutant of ForecastsText: each fragment is put before the text so far.
RECURSIVE ForecastsTextPrepend(_, _, _)
ForecastsTextPrepend(forecasts, item, language) ==
    IF forecasts = <<>> THEN [ok |-> TRUE, text |-> <<>>]
    ELSE LET one == FormatItem(Head(forecasts), item, language)
             rest == ForecastsTextPrepend(Tail(forecasts), item, language)
         IN  IF one.ok /\ rest.ok
             THEN [ok |-> TRUE, text |-> rest.text \o one.text]
             ELSE [ok |-> FALSE, text |-> <<>>]

\* The loop of generate_markdown: forecasts_text, or the KeyError of a fragment.
RECURSIVE ForecastsText(_, _, _)
ForecastsText(forecasts, item, language) ==
    IF forecasts = <<>> THEN [ok |-> TRUE, text |-> <<>>]
    ELSE LET one == FormatItem(Head(forecasts), item, language)
             rest == ForecastsText(Tail(forecasts), item, language)
         IN  IF one.ok /\ rest.ok
             THEN [ok |-> TRUE, text |-> one.text \o rest.text]
             ELSE [ok |-> FALSE, text |-> <<>>]

generate_markdown(weather_data, template, language, current_time) ==
    LET fs == ForecastsText(weather_data.forecasts, template.forecast_item, language)
        out == Format(template.main,
                      [today_situation |-> Str(weather_data.today_situation),
                       author |-> Str(weather_data.system.author),
                       pubdate |-> Str(weather_data.system.pubdate),
                       language |-> Str(weather_data.system.language),
                       forecasts |-> fs.text,
                       current_time |-> <<current_time>>])
    IN  IF fs.ok /\ out.ok
        THEN [raised |-> "", text |-> out.text]
        ELSE [raised |-> "KeyError", text |-> <<>>]

(***************************************************************************)
(* get_language_from_url and list_available_templates                      *)
(***************************************************************************)
\* A mutant of get_language_from_url: the Portuguese file name is tried first.
get_language_from_url_p_first(url) ==
    IF Contains(url, "p_forecast.xml") THEN PORTUGUESE
    ELSE IF Contains(url, "c_forecast.xml") THEN CHINESE
    ELSE IF Contains(url, "e_forecast.xml") THEN ENGLISH
    ELSE CHINESE

get_language_from_url(url) ==
    IF Contains(url, "c_forecast.xml") THEN CHINESE
    ELSE IF Contains(url, "p_forecast.xml") THEN PORTUGUESE
    ELSE IF Contains(url, "e_forecast.xml") THEN ENGLISH
    ELSE CHINESE

\* The templates directory: missing, or its file names in sorted order.
NoDir == [exists |-> FALSE, names |-> <<>>]

TemplateDirs ==
    { NoDir,
      [exists |-> TRUE, names |-> <<"README.txt", "custom.md", "default_template.md">>] }

MdFiles == {"custom.md", "default_en.md", "default_pt.md", "default_template.md"}

RECURSIVE SelectMd(_)
SelectMd(names) ==
    IF names = <<>> THEN <<>>
    ELSE (IF Head(names) \in MdFiles THEN <<Head(names)>> ELSE <<>>)
             \o SelectMd(Tail(names))

list_available_templates(dir) ==
    IF dir.exists THEN SelectMd(dir.names) ELSE <<"default_template.md">>

(***************************************************************************)
(* The run of main()                                                       *)
(***************************************************************************)
VARIABLES
    pc,               \* the statement of main() the run is at
    args,             \* the parsed command line
    language,         \* main's language
    url,              \* main's url
    template_file,    \* main's template_file
    file,             \* what the read of the template file found
    template,         \* main's template
    requests_sent,    \* the URLs requests.get was called with, in order
    response,         \* what requests.get returned or raised
    weather_data,     \* main's weather_data
    markdown_output,  \* main's markdown_output
    stdout,           \* the strings printed to standard output, in order
    stderr,           \* the messages printed to standard error, in order
    exit_code,        \* the exit status: 1 after sys.exit(1), 0 otherwise
    steps             \* the stages the run went through, with their outcome

vars ==
    <<pc, args, language, url, template_file, file, template, requests_sent,
      response, weather_data, markdown_output, stdout, stderr, exit_code, steps>>

\* The command lines: an option that is not given is "" (a URL: <<>>).
UserUrls ==
    { <<"https://example.org/", "feed.xml">>,
      <<"https://mirror.example/", "p_forecast.xml">>,
      <<"https://proxy.example/", "p_forecast.xml", "?via=", "c_forecast.xml">> }

CommandLines ==
    [list_templates : BOOLEAN, language : {""} \cup Language,
     url : {<<>>} \cup UserUrls, template : {"", "custom.md"}]

NoArgs == [list_templates |-> FALSE, language |-> "", url |-> <<>>, template |-> ""]

\* What requests.get(url, timeout=10) does: raises, or returns a response.
NoResponse == [kind |-> "none", status_code |-> 0, content |-> Malformed]

Responses ==
    { [kind |-> "raised", status_code |-> 0, content |-> Malformed] }
    \cup [kind : {"response"}, status_code : {404, 500}, content : {Malformed}]
    \cup [kind : {"response"}, status_code : {200},
          content : {Malformed} \cup WellFormedDocs]

\* The values of datetime.now().strftime("%Y-%m-%d %H:%M:%S").
Clock == {"2025-01-01 12:00:00"}

Init ==
    /\ pc = "start"
    /\ args = NoArgs
    /\ language = ""
    /\ url = <<>>
    /\ template_file = ""
    /\ file = NoFile
    /\ template = NoTemplate
    /\ requests_sent = <<>>
    /\ response = NoResponse
    /\ weather_data = NoData
    /\ markdown_output = <<>>
    /\ stdout = <<>>
    /\ stderr = <<>>
    /\ exit_code = 0
    /\ steps = <<>>

\* parser.parse_args() and the test of args.list_templates.
ParseArgs ==
    /\ pc = "start"
    /\ \E a \in CommandLines :
         /\ args' = a
         /\ pc' = IF a.list_templates THEN "list" ELSE "select"
    /\ UNCHANGED <<language, url, template_file, file, template, requests_sent,
                   response, weather_data, markdown_output, stdout, stderr,
                   exit_code, steps>>

\* The --list-templates branch: print the list and return.
ListTemplates ==
    /\ pc = "list"
    /\ \E dir \in TemplateDirs :
         LET templates == list_available_templates(dir)
         IN  stdout' = stdout \o <<<<"Available templates:">>>>
                           \o [i \in DOMAIN templates |-> <<"  - ", templates[i]>>]
    /\ steps' = Append(steps, "list")
    /\ pc' = "done"
    /\ UNCHANGED <<args, language, url, template_file, file, template,
                   requests_sent, response, weather_data, markdown_output,
                   stderr, exit_code>>

\* "Determine language and URL" and "Determine template".
SelectLanguage ==
    /\ pc = "select"
    /\ LET lang == IF args.language # "" THEN args.language
                   ELSE IF args.url # <<>> THEN get_language_from_url(args.url)
                   ELSE CHINESE
       IN  /\ language' = lang
           /\ url' = IF args.language # "" THEN DATA_SOURCES(lang)
                     ELSE IF args.url # <<>> THEN args.url
                     ELSE DATA_SOURCES(lang)
           /\ template_file' = IF args.template # "" THEN args.template
                               ELSE DEFAULT_TEMPLATES(lang)
    /\ pc' = "load"
    /\ UNCHANGED <<args, file, template, requests_sent, response, weather_data,
                   markdown_output, stdout, stderr, exit_code, steps>>

\* The inner try of main: load_template, with the fallback to the built-in
\* template; another exception reaches main's last handler.
LoadTemplate ==
    /\ pc = "load"
    /\ \E f \in TemplateFiles :
         LET r == load_template(f)
             said == IF r.raised = "" THEN <<>>
                     ELSE IF r.raised = "FileNotFoundError" THEN <<"Template file not found">>
                     ELSE <<"Error loading template">>
         IN  /\ file' = f
             /\ IF r.raised = ""
                THEN /\ template' = r.template
                     /\ stderr' = stderr \o said
                     /\ steps' = Append(steps, "load:ok")
                     /\ pc' = "fetch"
                     /\ exit_code' = exit_code
                ELSE IF r.raised \in {"FileNotFoundError", "ValueError"}
                THEN /\ template' = create_default_template(language)
                     /\ stderr' = stderr \o said \o <<"Template not found, using default">>
                     /\ steps' = Append(steps, "load:default")
                     /\ pc' = "fetch"
                     /\ exit_code' = exit_code
                ELSE /\ template' = template
                     /\ stderr' = stderr \o said \o <<"Unexpected error">>
                     /\ steps' = Append(steps, "load:raised")
                     /\ pc' = "done"
                     /\ exit_code' = 1
    /\ UNCHANGED <<args, language, url, template_file, requests_sent, response,
                   weather_data, markdown_output, stdout>>

\* A mutant of Fetch: a request that failed is sent once more.
FetchRetry ==
    /\ pc = "fetch"
    /\ requests_sent' = Append(requests_sent, url)
    /\ \E r \in Responses :
         /\ response' = r
         /\ IF r.kind = "raised" \/ (400 <= r.status_code /\ r.status_code < 600)
            THEN IF requests_sent = <<>>
                 THEN /\ stderr' = Append(stderr, "Fetching weather data")
                      /\ steps' = Append(steps, "fetch:raised")
                      /\ pc' = "fetch"
                      /\ exit_code' = exit_code
                 ELSE /\ stderr' = stderr \o <<"Fetching weather data", "Error fetching data">>
                      /\ steps' = Append(steps, "fetch:raised")
                      /\ pc' = "done"
                      /\ exit_code' = 1
            ELSE /\ stderr' = Append(stderr, "Fetching weather data")
                 /\ steps' = Append(steps, "fetch:ok")
                 /\ pc' = "parse"
                 /\ exit_code' = exit_code
    /\ UNCHANGED <<args, language, url, template_file, file, template,
                   weather_data, markdown_output, stdout>>

\* requests.get(url, timeout=10) and response.raise_for_status().
Fetch ==
    /\ pc = "fetch"
    /\ requests_sent' = Append(requests_sent, url)
    /\ \E r \in Responses :
         /\ response' = r
         /\ IF r.kind = "raised" \/ (400 <= r.status_code /\ r.status_code < 600)
            THEN /\ stderr' = stderr \o <<"Fetching weather data", "Error fetching data">>
                 /\ steps' = Append(steps, "fetch:raised")
                 /\ pc' = "done"
                 /\ exit_code' = 1
            ELSE /\ stderr' = Append(stderr, "Fetching weather data")
                 /\ steps' = Append(steps, "fetch:ok")
                 /\ pc' = "parse"
                 /\ exit_code' = exit_code
    /\ UNCHANGED <<args, language, url, template_file, file, template,
                   weather_data, markdown_output, stdout>>

\* A mutant of Parse: the message of a failure goes to standard output.
ParseErrorToStdout ==
    /\ pc = "parse"
    /\ LET r == parse_weather_xml(response.content)
       IN  IF r.raised = ""
           THEN /\ weather_data' = r.data
                /\ steps' = Append(steps, "parse:ok")
                /\ pc' = "render"
                /\ UNCHANGED <<stdout, exit_code>>
           ELSE /\ weather_data' = weather_data
                /\ stdout' = Append(stdout, <<IF r.raised = "ParseError"
                                              THEN "Error parsing XML"
                                              ELSE "Unexpected error">>)
                /\ steps' = Append(steps, "parse:raised")
                /\ pc' = "done"
                /\ exit_code' = 1
    /\ UNCHANGED <<args, language, url, template_file, file, template,
                   requests_sent, response, markdown_output, stderr>>

\* weather_data = parse_weather_xml(response.content)
Parse ==
    /\ pc = "parse"
    /\ LET r == parse_weather_xml(response.content)
       IN  IF r.raised = ""
           THEN /\ weather_data' = r.data
                /\ steps' = Append(steps, "parse:ok")
                /\ pc' = "render"
                /\ UNCHANGED <<stderr, exit_code>>
           ELSE /\ weather_data' = weather_data
                /\ stderr' = Append(stderr, IF r.raised = "ParseError"
                                            THEN "Error parsing XML"
                                            ELSE "Unexpected error")
                /\ steps' = Append(steps, "parse:raised")
                /\ pc' = "done"
                /\ exit_code' = 1
    /\ UNCHANGED <<args, language, url, template_file, file, template,
                   requests_sent, response, markdown_output, stdout>>

\* markdown_output = generate_markdown(weather_data, template, language)
Render ==
    /\ pc = "render"
    /\ \E now \in Clock :
         LET r == generate_markdown(weather_data, template, language, now)
         IN  IF r.raised = ""
             THEN /\ markdown_output' = r.text
                  /\ stderr' = Append(stderr, "Generating markdown")
                  /\ steps' = Append(steps, "render:ok")
                  /\ pc' = "print"
                  /\ exit_code' = exit_code
             ELSE /\ markdown_output' = markdown_output
                  /\ stderr' = stderr \o <<"Generating markdown", "Unexpected error">>
                  /\ steps' = Append(steps, "render:raised")
                  /\ pc' = "done"
                  /\ exit_code' = 1
    /\ UNCHANGED <<args, language, url, template_file, file, template,
                   requests_sent, response, weather_data, stdout>>

\* print(markdown_output), the last statement of main.
PrintOutput ==
    /\ pc = "print"
    /\ stdout' = Append(stdout, markdown_output)
    /\ steps' = Append(steps, "print")
    /\ pc' = "done"
    /\ UNCHANGED <<args, language, url, template_file, file, template,
                   requests_sent, response, weather_data, markdown_output,
                   stderr, exit_code>>

Next ==
    \/ ParseArgs
    \/ ListTemplates
    \/ SelectLanguage
    \/ LoadTemplate
    \/ Fetch
    \/ Parse
    \/ Render
    \/ PrintOutput

Spec == Init /\ [][Next]_vars

(***************************************************************************)
(* Vocabulary of the properties                                            *)
(***************************************************************************)
Did(step) == \E i \in DOMAIN steps : steps[i] = step

\* The WeatherForecast elements of the fetched document, in document order.
FeedForecasts == response.content.forecasts

\* The text an XML value shows as: an empty element shows as "None".
Shown(v) == IF v = PyNone THEN "None" ELSE v

ShownDate(e) == IF e.ValidFor = Absent THEN "Unknown" ELSE Shown(e.ValidFor)

ShownDescription(e) ==
    IF e.WeatherDescription = Absent THEN "No description"
    ELSE Shown(e.WeatherDescription)

ShownTide(e) ==
    IF e.AstronomicalTide \in {Absent, "NIL"} THEN TideNoData(language)
    ELSE Shown(e.AstronomicalTide)

\* The per-day fragment of the run's template filled with the element e.
Filled(e) ==
    [j \in DOMAIN template.forecast_item |->
        LET t == template.forecast_item[j]
        IN  IF t.k = "lit" THEN t.v
            ELSE IF t.v = "date" THEN ShownDate(e)
            ELSE IF t.v = "tide" THEN ShownTide(e)
            ELSE ShownDescription(e)]

\* The offsets of the output at which an instance of the per-day fragment
\* stands: the fragment's literal text, with any text at its placeholders.
InstanceOffsets ==
    { o \in 0..(Len(markdown_output) - Len(template.forecast_item)) :
        \A j \in DOMAIN template.forecast_item :
            template.forecast_item[j].k = "lit"
                => markdown_output[o + j] = template.forecast_item[j].v }

NthOffset(i) ==
    CHOOSE o \in InstanceOffsets : Cardinality({q \in InstanceOffsets : q < o}) = i - 1

FragmentsInSourceOrder ==
    /\ Cardinality(InstanceOffsets) = Len(FeedForecasts)
    /\ \A i \in DOMAIN FeedForecasts :
         SubSeq(markdown_output, NthOffset(i) + 1,
                NthOffset(i) + Len(template.forecast_item)) = Filled(FeedForecasts[i])

PlaceholderCount(tpl, name) == Cardinality({j \in DOMAIN tpl : tpl[j] = Ph(name)})

(***************************************************************************)
(* C1                                                                      *)
(***************************************************************************)
\* The fragments stand one after the other where the outer template has its
\* {forecasts} placeholder, and the rest of the output is the outer template.
FragmentsAtPlaceholder ==
    LET p == CHOOSE j \in DOMAIN template.main : template.main[j] = Ph("forecasts")
        L == Len(template.forecast_item)
    IN  /\ Len(markdown_output) = Len(template.main) - 1 + Len(FeedForecasts) * L
        /\ \A i \in DOMAIN FeedForecasts : NthOffset(i) = (p - 1) + (i - 1) * L

\* C1, as amended: when generate_markdown returns and the outer template holds
\* the {forecasts} placeholder exactly once, the output contains exactly N
\* instances of the per-day fragment, N the number of WeatherForecast elements
\* of the document, the i-th filled with the i-th element in document order;
\* they stand, one after the other, in the place of the placeholder.
C1_FragmentsInSourceOrder ==
    (Did("render:ok") /\ PlaceholderCount(template.main, "forecasts") = 1)
        => FragmentsInSourceOrder /\ FragmentsAtPlaceholder

\* C1, as stated: the same for every template.
C1_EveryTemplate == Did("render:ok") => FragmentsInSourceOrder

\* C1 witness: a user template has rendered two different forecasts whose dates
\* are not in chronological order.
C1_Witness ==
    /\ pc = "done"
    /\ Did("print")
    /\ Did("load:ok")
    /\ PlaceholderCount(template.main, "forecasts") = 1
    /\ Len(FeedForecasts) = 2
    /\ FeedForecasts[1].ValidFor = "2025-01-02"
    /\ FeedForecasts[2].ValidFor = "2025-01-01"

(***************************************************************************)
(* C2                                                                      *)
(***************************************************************************)
\* The tide placeholders of the per-day fragment.
TideSlots ==
    { j \in DOMAIN template.forecast_item : template.forecast_item[j] = Ph("tide") }

\* C2: in every rendered fragment the text at a {tide} placeholder is the fixed
\* string of the run's language when the record's tide equals "NIL", and the
\* record's tide value itself, unchanged, for any other tide value.
C2_TideFallbackOrVerbatim ==
    (Did("render:ok") /\ PlaceholderCount(template.main, "forecasts") = 1)
        => \A i \in DOMAIN weather_data.forecasts : \A j \in TideSlots :
              markdown_output[NthOffset(i) + j] =
                  IF weather_data.forecasts[i].tide = "NIL"
                  THEN (IF language = CHINESE THEN "U+7121 U+8CC7 U+6599"
                        ELSE IF language = PORTUGUESE THEN "Sem dados"
                        ELSE "No data")
                  ELSE weather_data.forecasts[i].tide

(***************************************************************************)
(* C3                                                                      *)
(***************************************************************************)
ParseAttempted == Did("parse:ok") \/ Did("parse:raised")

HasSystemElements(doc) ==
    doc.SysAuthor # Absent /\ doc.SysPubdate # Absent /\ doc.SysLanguage # Absent

\* C3: on a well-formed document that has the system elements,
\* parse_weather_xml returns; a missing TodaySituation yields "No data
\* available", a missing ValidFor "Unknown", a missing WeatherDescription "No
\* description", a missing AstronomicalTide "NIL", and every element that is
\* present yields its text.
C3_MissingOptionalFallbacks ==
    (ParseAttempted /\ response.content.wellformed
        /\ HasSystemElements(response.content))
        => /\ Did("parse:ok")
           /\ weather_data.today_situation =
                 (IF response.content.TodaySituation = Absent
                  THEN "No data available" ELSE response.content.TodaySituation)
           /\ Len(weather_data.forecasts) = Len(FeedForecasts)
           /\ \A i \in DOMAIN FeedForecasts :
                LET e == FeedForecasts[i]
                    r == weather_data.forecasts[i]
                IN  /\ r.date = (IF e.ValidFor = Absent THEN "Unknown" ELSE e.ValidFor)
                    /\ r.description = (IF e.WeatherDescription = Absent
                                        THEN "No description" ELSE e.WeatherDescription)
                    /\ r.tide = (IF e.AstronomicalTide = Absent
                                 THEN "NIL" ELSE e.AstronomicalTide)

\* C3 witness: a document without TodaySituation, with one forecast that lacks
\* ValidFor and AstronomicalTide and one that lacks WeatherDescription, was parsed.
C3_Witness ==
    /\ Did("parse:ok")
    /\ response.content.TodaySituation = Absent
    /\ FeedForecasts = <<Entry(Absent, "Rain", Absent), Entry("2025-01-02", Absent, "NIL")>>

(***************************************************************************)
(* C4                                                                      *)
(***************************************************************************)
MissingOrUnmarked ==
    \/ file.status = "notfound"
    \/ file.status = "ok" /\ \A j \in DOMAIN file.content : file.content[j] # MARKER

\* C4: when the template file does not exist or holds no marker, the run is not
\* aborted by it: the warning is on standard error, the template is the
\* built-in one of the run's language, the run goes on to the fetch, ends only
\* in a failure of a later stage or after printing, and what it renders is
\* rendered with the built-in template.
C4_FallbackToBuiltIn ==
    MissingOrUnmarked
        => /\ template = create_default_template(language)
           /\ \E i \in DOMAIN stderr : stderr[i] = "Template not found, using default"
           /\ pc = "fetch" \/ Len(requests_sent) = 1
           /\ pc = "done" => \/ Did("fetch:raised")
                             \/ Did("parse:raised")
                             \/ Did("render:raised")
                             \/ Did("print")
           /\ Did("render:ok")
                => \E now \in Clock :
                      markdown_output =
                          generate_markdown(weather_data,
                                            create_default_template(language),
                                            language, now).text

\* C4 witness: a run whose template file has no marker has printed its output.
C4_Witness ==
    /\ file.status = "ok"
    /\ \A j \in DOMAIN file.content : file.content[j] # MARKER
    /\ pc = "done"
    /\ Did("print")

(***************************************************************************)
(* C5                                                                      *)
(***************************************************************************)
\* The fatal paths: the fetch raised (no answer, or a status of 400 and
\* above), or the XML is malformed.
FatalPath ==
    \/ Did("fetch:raised")
    \/ Did("parse:raised") /\ ~response.content.wellformed

PipelineSucceeded == Did("fetch:ok") /\ Did("parse:ok") /\ Did("render:ok")

C6_FetchUsesSuppliedUrl ==
    (args.url # <<>> /\ requests_sent # <<>>) => requests_sent = <<args.url>>

(***************************************************************************)
(* C7                                                                      *)
(***************************************************************************)
FetchSteps == { i \in DOMAIN steps : steps[i] \in {"fetch:ok", "fetch:raised"} }

\* C7: a run sends at most one request; it parses only after the fetch has
\* succeeded and renders only after the parse has succeeded, and nothing
\* follows a fetch that failed.
C7_SequentialSingleFetch ==
    /\ Len(requests_sent) <= 1
    /\ Cardinality(FetchSteps) <= 1
    /\ pc = "parse" => Did("fetch:ok")
    /\ pc = "render" => Did("parse:ok")
    /\ \A i \in DOMAIN steps :
         /\ steps[i] \in {"parse:ok", "parse:raised"}
              => \E h \in 1..(i - 1) : steps[h] = "fetch:ok"
         /\ steps[i] \in {"render:ok", "render:raised"}
              => \E h \in 1..(i - 1) : steps[h] = "parse:ok"
         /\ steps[i] = "fetch:raised" => i = Len(steps)

\* C7 witness: a run has fetched once, parsed and rendered.
C7_Witness ==
    /\ Did("render:ok")
    /\ steps = <<"load:ok", "fetch:ok", "parse:ok", "render:ok", "print">>
    /\ Len(requests_sent) = 1

(***************************************************************************)
(* C8                                                                      *)
(***************************************************************************)
MainFields ==
    {"today_situation", "author", "pubdate", "language", "forecasts", "current_time"}

ItemFields == {"date", "tide", "description"}

HasUnsupported(tpl, fields) ==
    \E j \in DOMAIN tpl : tpl[j].k = "ph" /\ tpl[j].v \notin fields

RenderAttempted == Did("render:ok") \/ Did("render:raised")

\* C8: with a loaded user template that holds an unsupported placeholder in its
\* outer part, or in its per-day fragment when the document has a forecast,
\* generate_markdown raises whenever it is called, and the run ends with exit
\* status 1 and nothing on standard output; an unsupported placeholder of the
\* fragment alone does not fail a document without forecasts.
C8_UnsupportedPlaceholderFails ==
    /\ ( /\ Did("load:ok")
         /\ \/ HasUnsupported(template.main, MainFields)
            \/ /\ HasUnsupported(template.forecast_item, ItemFields)
               /\ Did("parse:ok") => Len(weather_data.forecasts) >= 1 )
        => /\ ~Did("render:ok")
           /\ stdout = <<>>
           /\ (Did("parse:ok") /\ pc # "render") => Did("render:raised")
           /\ pc = "done" => exit_code = 1
    /\ ( /\ Did("load:ok")
         /\ ~HasUnsupported(template.main, MainFields)
         /\ HasUnsupported(template.forecast_item, ItemFields)
         /\ RenderAttempted
         /\ weather_data.forecasts = <<>> )
        => Did("render:ok")

\* C8 witness: a run whose per-day fragment holds an unsupported placeholder
\* has ended in generate_markdown.
C8_Witness ==
    /\ Did("load:ok")
    /\ ~HasUnsupported(template.main, MainFields)
    /\ HasUnsupported(template.forecast_item, ItemFields)
    /\ Did("render:raised")
    /\ pc = "done"

(***************************************************************************)
(* C9                                                                      *)
(***************************************************************************)
LanguageByPrecedence ==
    IF args.language # "" THEN args.language
    ELSE IF args.url = <<>> THEN "zh"
    ELSE IF \E i \in DOMAIN args.url : args.url[i] = "c_forecast.xml" THEN "zh"
    ELSE IF \E i \in DOMAIN args.url : args.url[i] = "p_forecast.xml" THEN "pt"
    ELSE IF \E i \in DOMAIN args.url : args.url[i] = "e_forecast.xml" THEN "en"
    ELSE "zh"

Selected == ~args.list_templates /\ pc \notin {"start", "select"}

ParsedOrFailed == response.kind = "response" /\ response.status_code = 200 /\ pc # "parse"

\* C10: when a well-formed document lacks SysAuthor, SysPubdate or SysLanguage,
\* parse_weather_xml raises and extracts nothing, nothing is rendered, and the
\* run has ended with exit status 1, the message of main's last handler on
\* standard error and nothing on standard output.
C10_SystemElementsMandatory ==
    (ParsedOrFailed /\ response.content.wellformed
        /\ ~HasSystemElements(response.content))
        => /\ Did("parse:raised")
           /\ weather_data = NoData
           /\ ~RenderAttempted
           /\ pc = "done"
           /\ exit_code = 1
           /\ stderr[Len(stderr)] = "Unexpected error"
           /\ stdout = <<>>

\* C10 witness: a run has ended on a well-formed document without SysLanguage.
C10_Witness ==
    /\ pc = "done"
    /\ response.content.wellformed
    /\ response.content.SysLanguage = Absent
    /\ response.content.SysAuthor # Absent
    /\ Did("parse:raised")

=============================================================================
